---- MODULE Spec2Model ----
(***************************************************************************)
(* A model of access-log-to-prometheus-metrics: the format compiler        *)
(* (LogFormatParser), the line parser (LogParserInner), the pipeline       *)
(* builder (LogCollectorBuilder), the line processor                       *)
(* (LogProcessor::process_line) and the tail engine                        *)
(* (LogProcessor::watch_log / start_thread) with the scrape path           *)
(* (LogCollector::collect).                                                *)
(*                                                                         *)
(* Text is modelled as a sequence of one-character strings, so that the    *)
(* scanners can be written character by character as in the source.       *)
(* Field and label names are TLA+ strings.                                 *)
(***************************************************************************)
EXTENDS Integers, Sequences, FiniteSets, TLC

VARIABLES
    \* ---- the file system and the notify channel (environment) ----
    path,        \* inode the watched path names, or NoFile
    files,       \* inode -> content (sequence of characters)
    rx,          \* events queued in the mpsc channel of the watcher
    budget,      \* what the environment may still do (bounds the model)
    \* ---- the worker thread (start_thread / watch_log) ----
    pc,          \* position of the worker
    file,        \* inode of the open file handle, or NoFile
    watched,     \* inode the watcher is registered on, or NoFile
    offset,      \* watch_log's `offset`
    buffer,      \* watch_log's `buffer`
    read_to,     \* watch_log's `read_to`
    cur,         \* the line being handled under the lock: labels, duration, size
    \* ---- LogData behind the mutex ----
    lock,        \* holder of the Mutex<LogData>: "none" or "worker"
    active,
    request_count,
    request_duration,
    response_body_size,
    error_count,
    \* ---- the scrape path ----
    scrape,      \* what the last LogCollector::collect returned
    \* ---- history (not program state) ----
    hist,
    \* ---- inputs and results of the pure components ----
    pin,
    pout

vars == <<path, files, rx, budget, pc, file, watched, offset, buffer, read_to, cur,
          lock, active, request_count, request_duration, response_body_size,
          error_count, scrape, hist, pin, pout>>

tailVars == <<path, files, rx, budget, pc, file, watched, offset, buffer, read_to, cur,
              lock, active, request_count, request_duration, response_body_size,
              error_count, scrape, hist>>

pureVars == <<pin, pout>>

-----------------------------------------------------------------------------
(* Characters and text                                                     *)

NL == "\n"

Digits == {"0", "1", "2", "3", "4", "5", "6", "7", "8", "9"}

\* char::is_whitespace, restricted to the characters the model writes
WhiteSpace == {" ", NL}

\* read_identifier: 'a'..='z', '0'..='9', '_'
IdentChars ==
    {"a", "b", "c", "d", "e", "f", "g", "h", "i", "j", "k", "l", "m",
     "n", "o", "p", "q", "r", "s", "t", "u", "v", "w", "x", "y", "z", "_"}
    \cup Digits

RECURSIVE Join(_)
\* the String made of the characters of cs
Join(cs) == IF cs = <<>> THEN "" ELSE Head(cs) \o Join(Tail(cs))

\* &s[from..to) with 1-based from and exclusive to
Slice(s, from, to) == SubSeq(s, from, to - 1)

DigitVal(c) ==
    CASE c = "0" -> 0 [] c = "1" -> 1 [] c = "2" -> 2 [] c = "3" -> 3 [] c = "4" -> 4
      [] c = "5" -> 5 [] c = "6" -> 6 [] c = "7" -> 7 [] c = "8" -> 8 [] c = "9" -> 9

AllDigits(s) == \A i \in 1..Len(s) : s[i] \in Digits

RECURSIVE DecValue(_, _, _)
\* the value of the digits of s, or max + 1 as soon as it exceeds max
DecValue(s, acc, max) ==
    IF s = <<>> THEN acc
    ELSE LET n == acc * 10 + DigitVal(Head(s))
         IN  IF n > max THEN max + 1 ELSE DecValue(Tail(s), n, max)

U16Max == 65535

\* The model keeps integers below 2^31; no modelled text reaches a u64 overflow.
U64Cap == 1000000000

\* <uN as FromStr>::from_str: an optional '+', then one or more digits, no overflow
ParseUnsigned(s, max) ==
    LET body == IF s # <<>> /\ Head(s) = "+" THEN Tail(s) ELSE s
    IN  IF body = <<>> \/ ~AllDigits(body) THEN [ok |-> FALSE, val |-> 0]
        ELSE LET v == DecValue(body, 0, max)
             IN  IF v > max THEN [ok |-> FALSE, val |-> 0] ELSE [ok |-> TRUE, val |-> v]

\* index of the first "." of s, or Len(s) + 1
DotPos(s) ==
    IF \E i \in 1..Len(s) : s[i] = "."
    THEN CHOOSE i \in 1..Len(s) : s[i] = "." /\ \A j \in 1..(i - 1) : s[j] # "."
    ELSE Len(s) + 1

\* number of thousandths the (at most three kept) fraction digits stand for
MilliOf(fr) ==
    LET d(i) == IF i <= Len(fr) THEN DigitVal(fr[i]) ELSE 0
    IN  100 * d(1) + 10 * d(2) + d(3)

\* <f32 as FromStr>::from_str on texts made of sign, digits and '.': an optional
\* sign, digits with at most one '.', at least one digit.  The value is kept
\* in thousandths (the exponent and inf/nan spellings are not modelled).
ParseF32(s) ==
    LET body == IF s # <<>> /\ Head(s) \in {"+", "-"} THEN Tail(s) ELSE s
        neg  == s # <<>> /\ Head(s) = "-"
        dot  == DotPos(body)
        ip   == Slice(body, 1, dot)
        fp   == SubSeq(body, dot + 1, Len(body))
    IN  IF ~AllDigits(ip) \/ ~AllDigits(fp) \/ (ip = <<>> /\ fp = <<>>)
        THEN [ok |-> FALSE, val |-> 0]
        ELSE LET m == DecValue(ip, 0, U64Cap) * 1000 + MilliOf(fp)
             IN  [ok |-> TRUE, val |-> IF neg THEN -m ELSE m]

-----------------------------------------------------------------------------
(* Tokens (log_parser.rs: LogToken, LogField)                              *)

Str(s) == [type |-> "Str", s |-> s, field |-> [kind |-> "", name |-> ""]]

Field(f) == [type |-> "Field", s |-> <<>>, field |-> f]

Named(kind) == [kind |-> kind, name |-> ""]

Other(name) == [kind |-> "Other", name |-> name]

\* parse_format's chain of comparisons on the identifier
LogFieldOf(var) ==
    IF var = "remote_addr" THEN Named("RemoteAddr")
    ELSE IF var = "remote_user" THEN Named("RemoteUser")
    ELSE IF var = "time_local" THEN Named("TimeLocal")
    ELSE IF var = "request" THEN Named("Request")
    ELSE IF var = "status" THEN Named("Status")
    ELSE IF var = "body_bytes_sent" THEN Named("BodyBytesSent")
    ELSE IF var = "http_referer" THEN Named("HttpReferer")
    ELSE IF var = "http_user_agent" THEN Named("HttpUserAgent")
    ELSE Other(var)

\* the name a field goes by in LogParser::fields()
FieldName(f) ==
    CASE f.kind = "RemoteAddr" -> "remote_addr"
      [] f.kind = "RemoteUser" -> "remote_user"
      [] f.kind = "TimeLocal" -> "time_local"
      [] f.kind = "Request" -> "request"
      [] f.kind = "Status" -> "status"
      [] f.kind = "BodyBytesSent" -> "body_bytes_sent"
      [] f.kind = "HttpReferer" -> "http_referer"
      [] f.kind = "HttpUserAgent" -> "http_user_agent"
      [] OTHER -> f.name

-----------------------------------------------------------------------------
(* Format compiler (log_parser.rs: LogFormatParser)                        *)
(* The iterator is its position: an index into the format, Len + 1 at end. *)

AtEnd(s, i) == i > Len(s)

RECURSIVE skip_whitespace(_, _)
skip_whitespace(format, i) ==
    IF AtEnd(format, i) THEN i
    ELSE IF format[i] \in WhiteSpace THEN skip_whitespace(format, i + 1)
    ELSE i

RECURSIVE maybe_consume_from(_, _, _, _)
\* the loop of maybe_consume: k characters of s matched, the iterator at i + k
maybe_consume_from(format, i, s, k) ==
    IF k = Len(s) THEN [ok |-> TRUE, pos |-> i + k]
    ELSE IF AtEnd(format, i + k) THEN [ok |-> FALSE, pos |-> i + k]
    ELSE IF s[k + 1] = format[i + k] THEN maybe_consume_from(format, i, s, k + 1)
    ELSE [ok |-> FALSE, pos |-> i]

maybe_consume(format, i, s) == maybe_consume_from(format, i, s, 0)

RECURSIVE ident_end(_, _)
\* the index after the maximal run of identifier characters starting at i
ident_end(format, i) ==
    IF ~AtEnd(format, i) /\ format[i] \in IdentChars THEN ident_end(format, i + 1) ELSE i

read_identifier(format, i) ==
    LET e == ident_end(format, i)
    IN  IF e = i THEN [ok |-> FALSE, id |-> "", pos |-> e]
        ELSE [ok |-> TRUE, id |-> Join(Slice(format, i, e)), pos |-> e]

\* parse_format's literal branch: extend the last Str token or push a new one
push_char(fields, c) ==
    IF fields # <<>> /\ fields[Len(fields)].type = "Str"
    THEN [fields EXCEPT ![Len(fields)] = Str(@.s \o <<c>>)]
    ELSE Append(fields, Str(<<c>>))

RECURSIVE parse_format(_, _, _)
parse_format(format, i, fields) ==
    IF AtEnd(format, i) THEN [ok |-> TRUE, pos |-> i, fields |-> fields]
    ELSE IF format[i] = "'" THEN [ok |-> TRUE, pos |-> i, fields |-> fields]
    ELSE IF format[i] = "$"
    THEN LET r == read_identifier(format, i + 1)
         IN  IF ~r.ok THEN [ok |-> FALSE, pos |-> r.pos, fields |-> fields]
             ELSE parse_format(format, r.pos, Append(fields, Field(LogFieldOf(r.id))))
    ELSE parse_format(format, i + 1, push_char(fields, format[i]))

Failed == [ok |-> FALSE, fields |-> <<>>]

\* what follows the body in the log_format form
parse_tail(format, i, fields) ==
    IF AtEnd(format, i) \/ format[i] # "'" THEN Failed
    ELSE IF AtEnd(format, i + 1) THEN [ok |-> TRUE, fields |-> fields]
    ELSE IF format[i + 1] = ";"
    THEN IF AtEnd(format, skip_whitespace(format, i + 2))
         THEN [ok |-> TRUE, fields |-> fields]
         ELSE Failed
    ELSE Failed

\* LogFormatParser::parse
compile(format) ==
    LET i0 == skip_whitespace(format, 1)
    IN  IF AtEnd(format, i0) THEN Failed
        ELSE LET lf == maybe_consume(format, i0, <<"l","o","g","_","f","o","r","m","a","t">>)
             IN  IF lf.ok
                 THEN LET i1 == skip_whitespace(format, lf.pos)
                          cb == maybe_consume(format, i1, <<"c","o","m","b","i","n","e","d">>)
                          i2 == IF cb.ok THEN skip_whitespace(format, cb.pos) ELSE cb.pos
                      IN  IF AtEnd(format, i2) \/ format[i2] # "'" THEN Failed
                          ELSE LET b == parse_format(format, i2 + 1, <<>>)
                               IN  IF ~b.ok THEN Failed
                                   ELSE parse_tail(format, b.pos, b.fields)
                 ELSE LET b == parse_format(format, lf.pos, <<>>)
                      IN  IF ~b.ok THEN Failed
                          ELSE IF ~AtEnd(format, b.pos) THEN Failed
                          ELSE [ok |-> TRUE, fields |-> b.fields]

-----------------------------------------------------------------------------
(* Line parser (log_parser.rs: LogParserInner)                             *)

NoNum == -1

\* A LogValue: the field it belongs to, the text taken from the line and, for
\* the Status and BodyBytesSent variants, the number the variant holds.
LogValue(f, value, num) == [field |-> f, value |-> value, num |-> num]

ParseFailed == [ok |-> FALSE, values |-> <<>>]

RECURSIVE match_str(_, _, _, _)
\* the Str branch: k characters of s matched, the cursor at pos.
\* Returns the cursor after the literal, or 0 on a mismatch.
match_str(log, pos, s, k) ==
    IF k = Len(s) THEN pos
    ELSE IF AtEnd(log, pos) THEN 0
    ELSE IF s[k + 1] = log[pos] THEN match_str(log, pos + 1, s, k + 1)
    ELSE 0

\* a scan that runs to the last sep of the line
find_sep_last(log, pos, sep) ==
    LET at == {i \in pos..Len(log) : log[i] = sep}
    IN  IF at = {} THEN 0 ELSE CHOOSE i \in at : \A j \in at : j <= i

RECURSIVE find_sep(_, _, _)
\* the index of the first sep at or after pos, or 0 when the line ends first
find_sep(log, pos, sep) ==
    IF AtEnd(log, pos) THEN 0
    ELSE IF log[pos] = sep THEN pos
    ELSE find_sep(log, pos + 1, sep)

\* the typed push that ends the Field branch
push_value(f, value) ==
    IF f.kind = "Status"
    THEN LET n == ParseUnsigned(value, U16Max)
         IN  [ok |-> n.ok, v |-> LogValue(f, value, n.val)]
    ELSE IF f.kind = "BodyBytesSent"
    THEN LET n == ParseUnsigned(value, U64Cap)
         IN  [ok |-> n.ok, v |-> LogValue(f, value, n.val)]
    ELSE [ok |-> TRUE, v |-> LogValue(f, value, NoNum)]

RECURSIVE parse_from(_, _, _, _, _)
\* the for loop of LogParserInner::parse at token i, the cursor at pos
parse_from(fields, log, i, pos, values) ==
    IF i > Len(fields) THEN [ok |-> TRUE, values |-> values]
    ELSE IF fields[i].type = "Str"
    THEN LET p == match_str(log, pos, fields[i].s, 0)
         IN  IF p = 0 THEN ParseFailed
             ELSE parse_from(fields, log, i + 1, p, values)
    ELSE IF i < Len(fields) /\ fields[i + 1].type # "Str" THEN ParseFailed
    ELSE LET last == i = Len(fields)
             stop == IF last THEN Len(log) + 1
                     ELSE IF AtEnd(log, pos) THEN pos
                     ELSE find_sep(log, pos, fields[i + 1].s[1])
         IN  IF stop = 0 THEN ParseFailed
             ELSE LET pv == push_value(fields[i].field, Slice(log, pos, stop))
                  IN  IF ~pv.ok THEN ParseFailed
                      ELSE parse_from(fields, log, i + 1, stop, Append(values, pv.v))

\* a parse that fails when characters are left after the last token
parse_whole_line(fields, log) ==
    LET r == parse_from(fields, log, 1, 1, <<>>)
        literals[n \in 0..Len(fields)] ==
            IF n = 0 THEN 0
            ELSE literals[n - 1] + (IF fields[n].type = "Str" THEN Len(fields[n].s) ELSE 0)
        taken[n \in 0..Len(r.values)] ==
            IF n = 0 THEN 0 ELSE taken[n - 1] + Len(r.values[n].value)
    IN  IF r.ok /\ literals[Len(fields)] + taken[Len(r.values)] # Len(log) THEN ParseFailed
        ELSE r

\* LogParser::parse
parse(fields, log) == parse_from(fields, log, 1, 1, <<>>)

\* LogParser::fields(): the names of the Field tokens, in order
fields_of(tokens) ==
    LET idx == {i \in 1..Len(tokens) : tokens[i].type = "Field"}
        F[n \in 0..Len(tokens)] ==
            IF n = 0 THEN <<>>
            ELSE IF n \in idx THEN Append(F[n - 1], FieldName(tokens[n].field))
            ELSE F[n - 1]
    IN  F[Len(tokens)]

-----------------------------------------------------------------------------
(* Filters and extractors (processor.rs)                                   *)

\* A regex::Regex of the shape the model uses: the literal text `lit`, searched
\* anywhere in the value, or matched against the whole value when anchored
\* (^lit$).
Regex(anchored, lit) == [anchored |-> anchored, lit |-> lit]

NoRegex == Regex(FALSE, <<>>)

\* the first index at which lit occurs in value, or 0
find_at(value, lit) ==
    LET hits == {i \in 1..(Len(value) - Len(lit) + 1) : Slice(value, i, i + Len(lit)) = lit}
    IN  IF hits = {} THEN 0 ELSE CHOOSE i \in hits : \A j \in hits : i <= j

\* Regex::is_match
is_match(regex, value) ==
    IF regex.anchored THEN value = regex.lit ELSE find_at(value, regex.lit) # 0

\* Regex::replace with a template that names no capture group
replace(regex, value, target) ==
    IF ~is_match(regex, value) THEN value
    ELSE IF regex.anchored THEN target
    ELSE LET i == find_at(value, regex.lit)
         IN  Slice(value, 1, i) \o target \o SubSeq(value, i + Len(regex.lit), Len(value))

\* Filter { field_index, func: FilterFunc::Regex { regex } }
Filter(field_index, regex) == [field_index |-> field_index, regex |-> regex]

\* Filter::filter
filter(f, value) == is_match(f.regex, value)

NoLabel == [some |-> FALSE, name |-> "", idx |-> 0]

SomeLabel(name, idx) == [some |-> TRUE, name |-> name, idx |-> idx]

Func(kind) == [kind |-> kind, target |-> <<>>, regex |-> NoRegex]

FuncRegex(target, regex) == [kind |-> "Regex", target |-> target, regex |-> regex]

\* Extractor { label, field_index, func }
Extractor(label, field_index, func) ==
    [label |-> label, field_index |-> field_index, func |-> func]

None == [some |-> FALSE, val |-> 0]

Some(v) == [some |-> TRUE, val |-> v]

\* the set_label closure: a panic when the extractor has no label or the index
\* is outside the label array
set_label(e, out, label) ==
    IF ~e.label.some \/ e.label.idx >= Len(out.labels)
    THEN [out EXCEPT !.result = "Panic"]
    ELSE [out EXCEPT !.labels[e.label.idx + 1] = label]

\* Extractor::extract; out holds the label array, duration and response size
extract(e, value, out) ==
    CASE e.func.kind = "User" ->
           IF value # <<"-">> THEN set_label(e, out, <<"y", "e", "s">>)
           ELSE set_label(e, out, <<"n", "o">>)
      [] e.func.kind = "Status" -> set_label(e, out, value)
      [] e.func.kind = "Duration" ->
           LET seconds == ParseF32(value)
           IN  IF ~seconds.ok THEN [out EXCEPT !.result = "ParseError"]
               ELSE [out EXCEPT !.duration = Some(seconds.val)]
      [] e.func.kind = "Host" -> set_label(e, out, value)
      [] e.func.kind = "ResponseBodySize" ->
           LET size == ParseUnsigned(value, U64Cap)
           IN  IF ~size.ok THEN [out EXCEPT !.result = "ParseError"]
               ELSE [out EXCEPT !.response_body_size = Some(size.val)]
      [] e.func.kind = "Regex" ->
           set_label(e, out, replace(e.func.regex, value, e.func.target))

-----------------------------------------------------------------------------
(* Line processor (processor.rs: LogProcessor::process_line)               *)

Unk == <<"u", "n", "k">>

\* what watch_log prepares before each call
FreshOut(nlabels) ==
    [result |-> "Matched", labels |-> [i \in 1..nlabels |-> Unk],
     duration |-> None, response_body_size |-> None, ran |-> <<>>, checked |-> <<>>]

RECURSIVE run_filters(_, _, _, _)
\* the filter loop at one field; the new filter_index, or -1 when a filter rejects
run_filters(filters, filter_index, field_index, value) ==
    IF filter_index < Len(filters) /\ filters[filter_index + 1].field_index = field_index
    THEN IF ~filter(filters[filter_index + 1], value) THEN -1
         ELSE run_filters(filters, filter_index + 1, field_index, value)
    ELSE filter_index

RECURSIVE run_extractors(_, _, _, _, _)
\* the extractor loop at one field; idx is the new extractor_index
run_extractors(extractors, extractor_index, field_index, value, out) ==
    IF extractor_index < Len(extractors)
       /\ extractors[extractor_index + 1].field_index = field_index
    THEN LET o == extract(extractors[extractor_index + 1], value, out)
         IN  IF o.result # "Matched" THEN [idx |-> extractor_index, out |-> o]
             ELSE run_extractors(extractors, extractor_index + 1, field_index, value,
                                 [o EXCEPT !.ran = Append(@, extractor_index)])
    ELSE [idx |-> extractor_index, out |-> out]

RECURSIVE process_fields(_, _, _, _, _, _)
\* the for loop over the parsed values
process_fields(p, values, field_index, filter_index, extractor_index, out) ==
    IF field_index >= Len(values) THEN out
    ELSE LET value == values[field_index + 1].value
             fi == run_filters(p.filters, filter_index, field_index, value)
         IN  IF fi = -1 THEN [out EXCEPT !.result = "Filtered"]
             ELSE LET r == run_extractors(p.extractors, extractor_index, field_index,
                                          value,
                                          [out EXCEPT !.checked =
                                               @ \o [i \in 1..(fi - filter_index)
                                                        |-> filter_index + i - 1]])
                  IN  IF r.out.result # "Matched" THEN r.out
                      ELSE process_fields(p, values, field_index + 1, fi, r.idx, r.out)

\* process_line: Matched is Ok(true), Filtered is Ok(false), ParseError is Err
process_line(p, line) ==
    LET v == parse(p.tokens, line)
    IN  IF ~v.ok THEN [FreshOut(Len(p.labels)) EXCEPT !.result = "ParseError"]
        ELSE process_fields(p, v.values, 0, 0, 0, FreshOut(Len(p.labels)))

-----------------------------------------------------------------------------
(* Pipeline builder (collector.rs: LogCollectorBuilder)                    *)

\* a lookup that resolves a name to its last position
position_last(seq, x) ==
    IF \E i \in 1..Len(seq) : seq[i] = x
    THEN (CHOOSE i \in 1..Len(seq) : seq[i] = x /\ \A j \in (i + 1)..Len(seq) : seq[j] # x) - 1
    ELSE -1

\* position of the first element of seq equal to x (0-based), or -1
position(seq, x) ==
    IF \E i \in 1..Len(seq) : seq[i] = x
    THEN (CHOOSE i \in 1..Len(seq) : seq[i] = x /\ \A j \in 1..(i - 1) : seq[j] # x) - 1
    ELSE -1

\* a label lookup that adds a slot on every request
label_always_append(labels, l) == [labels |-> Append(labels, l), idx |-> Len(labels)]

\* LogCollectorBuilder::label: the labels after the call and the index returned
label(labels, l) ==
    IF position(labels, l) # -1 THEN [labels |-> labels, idx |-> position(labels, l)]
    ELSE [labels |-> Append(labels, l), idx |-> Len(labels)]

\* the add_extractor closure of LogCollectorBuilder::new
auto_extractor(b, field_index, lbl, kind) ==
    IF lbl = "" THEN [b EXCEPT !.extractors = Append(@, Extractor(NoLabel, field_index, Func(kind)))]
    ELSE LET l == label(b.labels, lbl)
         IN  [b EXCEPT !.labels = l.labels,
                       !.extractors = Append(@, Extractor(SomeLabel(lbl, l.idx), field_index,
                                                          Func(kind)))]

RECURSIVE auto_register(_, _)
\* the loop of LogCollectorBuilder::new over log_parser.fields(), from field_index on
auto_register(b, field_index) ==
    IF field_index >= Len(b.fields) THEN b
    ELSE LET field == b.fields[field_index + 1]
             nb == IF field = "remote_user" THEN auto_extractor(b, field_index, "user", "User")
                   ELSE IF field = "status" THEN auto_extractor(b, field_index, "status", "Status")
                   ELSE IF field = "request_time" THEN auto_extractor(b, field_index, "", "Duration")
                   ELSE IF field = "host" THEN auto_extractor(b, field_index, "vhost", "Host")
                   ELSE IF field = "body_bytes_sent"
                        THEN auto_extractor(b, field_index, "", "ResponseBodySize")
                   ELSE b
         IN  auto_register(nb, field_index + 1)

\* LogCollectorBuilder::new
new(tokens) ==
    auto_register([tokens |-> tokens, fields |-> fields_of(tokens), filters |-> <<>>,
                   extractors |-> <<>>, labels |-> <<>>], 0)

\* LogCollectorBuilder::add_filter; ok is FALSE for Err(())
add_filter(b, field, regex) ==
    LET field_index == position(b.fields, field)
    IN  IF field_index = -1 THEN [ok |-> FALSE, b |-> b]
        ELSE [ok |-> TRUE, b |-> [b EXCEPT !.filters = Append(@, Filter(field_index, regex))]]

\* LogCollectorBuilder::add_extractor; lbl is "" for None
add_extractor(b, lbl, field, func) ==
    LET l == IF lbl = "" THEN [labels |-> b.labels, idx |-> 0] ELSE label(b.labels, lbl)
        lab == IF lbl = "" THEN NoLabel ELSE SomeLabel(lbl, l.idx)
        b1 == [b EXCEPT !.labels = l.labels]
        field_index == position(b.fields, field)
    IN  IF field_index = -1 THEN [ok |-> FALSE, b |-> b1]
        ELSE [ok |-> TRUE,
              b |-> [b1 EXCEPT !.extractors = Append(@, Extractor(lab, field_index, func))]]

RECURSIVE insert_sorted(_, _)
\* x put after every element whose field_index is not greater
insert_sorted(seq, x) ==
    IF seq = <<>> THEN <<x>>
    ELSE IF seq[Len(seq)].field_index <= x.field_index THEN Append(seq, x)
    ELSE Append(insert_sorted(SubSeq(seq, 1, Len(seq) - 1), x), seq[Len(seq)])

\* a sort that leaves the rules in registration order
registration_order(seq) == seq

RECURSIVE sort_by_field_index(_)
\* slice::sort_by(|a, b| a.field_index.cmp(&b.field_index)), a stable sort
sort_by_field_index(seq) ==
    IF seq = <<>> THEN <<>>
    ELSE insert_sorted(sort_by_field_index(SubSeq(seq, 1, Len(seq) - 1)), seq[Len(seq)])

\* LogCollectorBuilder::build_processor
build_processor(b) ==
    [tokens |-> b.tokens, labels |-> b.labels,
     filters |-> sort_by_field_index(b.filters),
     extractors |-> sort_by_field_index(b.extractors)]

-----------------------------------------------------------------------------
(* Bounds of the tail-engine model                                         *)

\* operations of the environment (appends, truncations, removals of the path,
\* stray events, scrapes), taken together
MaxEnvOps == 3

\* the same, in the specification with fairness
LiveEnvOps == 2

-----------------------------------------------------------------------------
(* The pipeline the tail engine runs: "$host $request_time" with the       *)
(* filter host:^a$                                                         *)

TailFormat == <<"$", "h", "o", "s", "t", " ", "$", "r", "e", "q", "u", "e", "s", "t",
                "_", "t", "i", "m", "e">>

TailProcessor ==
    build_processor(add_filter(new(compile(TailFormat).fields), "host",
                               Regex(TRUE, <<"a">>)).b)

\* what the writer appends in one write: a matched line, a filtered line, a
\* line without separator (after the start of a line: a malformed
\* request_time), the start of a line
Chunks ==
    { <<"a", " ", "1", NL>>, <<"b", " ", "1", NL>>, <<"x", NL>>, <<"a", " ">> }

-----------------------------------------------------------------------------
(* Tail engine: state                                                      *)

NoFile == 0

Inodes == 1..(MaxEnvOps + 1)

\* notify::RawEvent: op is Ok(set of flags) or Err
Event(ok, op) == [ok |-> ok, op |-> op]

Idle == [labels |-> <<>>, duration |-> None, response_body_size |-> None]

NoScrape == [taken |-> FALSE, active |-> FALSE, families |-> <<>>]

InitHist ==
    [tracking |-> FALSE,   \* a starting offset has been recorded
     appended |-> <<>>,    \* characters appended at the path since then
     delivered |-> <<>>,   \* the lines passed to process_line, in order
     batch |-> <<>>,       \* outcomes of the lines of the current batch
     truncated |-> FALSE,  \* the last size check saw a truncation
     size |-> 0,           \* the size the last size check observed
     read_at |-> 0,        \* the offset the last read started at
     opened |-> 0,         \* 1 once the open step has found the file missing
     sessions |-> 0,       \* times a watch has been established
     old |-> 0]            \* leading bytes of the open file that were there
                           \* when the starting offset was recorded

TailInit(ops) ==
    /\ path \in {NoFile, 1}
    /\ files = [i \in Inodes |-> <<>>]
    /\ rx = <<>>
    /\ budget = [ops |-> ops, created |-> path]
    /\ pc = "open"
    /\ file = NoFile
    /\ watched = NoFile
    /\ offset = 0
    /\ buffer = <<>>
    /\ read_to = 0
    /\ cur = Idle
    /\ lock = "none"
    \* LogData::new
    /\ active = FALSE
    /\ request_count = <<>>
    /\ request_duration = <<>>
    /\ response_body_size = <<>>
    /\ error_count = 0
    /\ scrape = NoScrape
    /\ hist = InitHist

NotRun == [done |-> FALSE]

PureIdle == pin = <<>> /\ pout = NotRun

Running == pc # "exited"

-----------------------------------------------------------------------------
(* The environment: the writer, log rotation, the notify backend           *)

\* the events an operation on inode i puts in the channel
Notify(i, ev) == IF watched # NoFile /\ watched = i THEN Append(rx, ev) ELSE rx

WriteEvent == Event(TRUE, {"WRITE"})

\* the writer appends a chunk to the file at the path
AppendChunk ==
    /\ Running /\ path # NoFile /\ budget.ops > 0
    /\ \E c \in Chunks :
         /\ files' = [files EXCEPT ![path] = @ \o c]
         /\ hist' = IF hist.tracking THEN [hist EXCEPT !.appended = @ \o c] ELSE hist
    /\ rx' = Notify(path, WriteEvent)
    /\ budget' = [budget EXCEPT !.ops = @ - 1]
    /\ UNCHANGED <<pin, pout, path, pc, file, watched, offset, buffer, read_to, cur, lock, active,
                   request_count, request_duration, response_body_size, error_count,
                   scrape>>

\* the file at the path is truncated in place
Truncate ==
    /\ Running /\ path # NoFile /\ budget.ops > 0 /\ files[path] # <<>>
    /\ \E n \in 0..(Len(files[path]) - 1) :
         /\ files' = [files EXCEPT ![path] = SubSeq(@, 1, n)]
         /\ hist' = IF path = file /\ n < hist.old THEN [hist EXCEPT !.old = n] ELSE hist
    /\ rx' = Notify(path, WriteEvent)
    /\ budget' = [budget EXCEPT !.ops = @ - 1]
    /\ UNCHANGED <<pin, pout, path, pc, file, watched, offset, buffer, read_to, cur, lock, active,
                   request_count, request_duration, response_body_size, error_count,
                   scrape>>

\* the path is renamed away or removed (log rotation's first half)
Remove ==
    /\ Running /\ path # NoFile /\ budget.ops > 0
    /\ path' = NoFile
    /\ \E op \in {{"RENAME"}, {"REMOVE"}} : rx' = Notify(path, Event(TRUE, op))
    /\ budget' = [budget EXCEPT !.ops = @ - 1]
    /\ UNCHANGED <<pin, pout, files, pc, file, watched, offset, buffer, read_to, cur, lock, active,
                   request_count, request_duration, response_body_size, error_count,
                   scrape, hist>>

\* a new, empty file is created at the path (log rotation's second half)
Create ==
    /\ Running /\ path = NoFile /\ budget.created < MaxEnvOps + 1
    /\ path' = budget.created + 1
    /\ budget' = [budget EXCEPT !.created = @ + 1]
    /\ UNCHANGED <<pin, pout, files, rx, pc, file, watched, offset, buffer, read_to, cur, lock,
                   active, request_count, request_duration, response_body_size,
                   error_count, scrape, hist>>

\* another event on the watched file: the writer closes it, its mode changes,
\* or the backend reports an error
Note ==
    /\ Running /\ watched # NoFile /\ budget.ops > 0
    /\ \E ev \in {Event(TRUE, {"CLOSE_WRITE"}), Event(TRUE, {"CHMOD"}), Event(FALSE, {})} :
         rx' = Append(rx, ev)
    /\ budget' = [budget EXCEPT !.ops = @ - 1]
    /\ UNCHANGED <<pin, pout, path, files, pc, file, watched, offset, buffer, read_to, cur, lock,
                   active, request_count, request_duration, response_body_size,
                   error_count, scrape, hist>>

-----------------------------------------------------------------------------
(* The metrics behind the mutex (collector.rs: LogData)                    *)

\* IntCounterVec::with_label_values(lv).inc()
IncAt(counter, lv) ==
    IF lv \in DOMAIN counter THEN [counter EXCEPT ![lv] = @ + 1]
    ELSE (lv :> 1) @@ counter

\* HistogramVec::with_label_values(lv).observe(v): sample count and sum
ObserveAt(histogram, lv, v) ==
    IF lv \in DOMAIN histogram
    THEN [histogram EXCEPT ![lv] = [count |-> @.count + 1, sum |-> @.sum + v]]
    ELSE (lv :> [count |-> 1, sum |-> v]) @@ histogram

\* a collect that exposes the families whatever the flag says
collect_always == <<request_count, request_duration, response_body_size, error_count>>

\* LogCollector::collect, with the lock held
collect ==
    IF active
    THEN <<request_count, request_duration, response_body_size, error_count>>
    ELSE <<>>

\* a scrape that reads the families without taking the lock
Collect_unlocked ==
    /\ Running /\ budget.ops > 0
    /\ scrape' = [taken |-> TRUE, active |-> active, families |-> collect]
    /\ budget' = [budget EXCEPT !.ops = @ - 1]
    /\ UNCHANGED <<pin, pout, path, files, rx, pc, file, watched, offset, buffer, read_to, cur, lock,
                   active, request_count, request_duration, response_body_size,
                   error_count, hist>>

\* a scrape: collect() takes the lock, reads and releases it
Collect ==
    /\ Running /\ lock = "none" /\ budget.ops > 0
    /\ scrape' = [taken |-> TRUE, active |-> active, families |-> collect]
    /\ budget' = [budget EXCEPT !.ops = @ - 1]
    /\ UNCHANGED <<pin, pout, path, files, rx, pc, file, watched, offset, buffer, read_to, cur, lock,
                   active, request_count, request_duration, response_body_size,
                   error_count, hist>>

-----------------------------------------------------------------------------
(* The worker (processor.rs: start_thread, watch_log)                      *)

metrics == <<request_count, request_duration, response_body_size, error_count>>

\* an open step that treats NotFound like every other failure
OpenMissing_fatal ==
    /\ pc = "open" /\ path = NoFile
    /\ pc' = "exited"
    /\ hist' = [hist EXCEPT !.opened = 1]
    /\ UNCHANGED <<pin, pout, path, files, rx, budget, file, watched, offset, buffer, read_to, cur,
                   lock, active, metrics, scrape>>

\* open(): the file is missing, watch_log returns Ok(())
OpenMissing ==
    /\ pc = "open" /\ path = NoFile
    /\ pc' = "sleep"
    /\ hist' = [hist EXCEPT !.opened = 1]
    /\ UNCHANGED <<pin, pout, path, files, rx, budget, file, watched, offset, buffer, read_to, cur,
                   lock, active, metrics, scrape>>

\* open() succeeds
OpenOk ==
    /\ pc = "open" /\ path # NoFile
    /\ file' = path
    /\ pc' = "watch"
    /\ UNCHANGED <<pin, pout, path, files, rx, budget, watched, offset, buffer, read_to, cur, lock,
                   active, metrics, scrape, hist>>

\* open() fails with an error other than NotFound: watch_log returns Err and
\* start_thread exits the process
OpenFail ==
    /\ pc = "open" /\ path # NoFile
    /\ pc' = "exited"
    /\ UNCHANGED <<pin, pout, path, files, rx, budget, file, watched, offset, buffer, read_to, cur,
                   lock, active, metrics, scrape, hist>>

\* channel(), new_raw(tx) and watcher.watch(filename)
Watch ==
    /\ pc = "watch" /\ path # NoFile
    /\ watched' = path
    /\ rx' = <<>>
    /\ pc' = "seek"
    /\ UNCHANGED <<pin, pout, path, files, budget, file, offset, buffer, read_to, cur, lock, active,
                   metrics, scrape, hist>>

\* a seek that leaves the starting offset at the start of the file
Seek_from_start ==
    /\ pc = "seek"
    /\ offset' = 0
    /\ pc' = "activate"
    /\ hist' = [hist EXCEPT !.tracking = TRUE, !.old = Len(files[file])]
    /\ UNCHANGED <<pin, pout, path, files, rx, budget, file, watched, buffer, read_to, cur, lock,
                   active, metrics, scrape>>

\* file.seek(SeekFrom::End(0)) records the starting offset
Seek ==
    /\ pc = "seek"
    /\ offset' = Len(files[file])
    /\ pc' = "activate"
    /\ hist' = [hist EXCEPT !.tracking = TRUE, !.old = Len(files[file])]
    /\ UNCHANGED <<pin, pout, path, files, rx, budget, file, watched, buffer, read_to, cur, lock,
                   active, metrics, scrape>>

\* data.lock().unwrap().active = true; buffer = String::new()
Activate ==
    /\ pc = "activate" /\ lock = "none"
    /\ active' = TRUE
    /\ buffer' = <<>>
    /\ read_to' = 0
    /\ pc' = "recv"
    /\ hist' = [hist EXCEPT !.sessions = @ + 1]
    /\ UNCHANGED <<pin, pout, path, files, rx, budget, file, watched, offset, cur, lock, metrics,
                   scrape>>

\* new_raw, watch, seek or read_to_string returns an error: the `?` leaves
\* watch_log with Err and start_thread exits the process
IoFail ==
    /\ pc \in {"watch", "seek", "size", "read"}
    /\ pc' = "exited"
    /\ UNCHANGED <<pin, pout, path, files, rx, budget, file, watched, offset, buffer, read_to, cur,
                   lock, active, metrics, scrape, hist>>

\* a reopen test that only reacts to the removal of the file
reopen_on_remove_only(ev) == ev.ok /\ "REMOVE" \in ev.op

\* the `reopen` test on an event
reopen(ev) == ev.ok /\ ~(ev.op \subseteq {"WRITE", "CLOSE_WRITE"})

\* rx.recv() returns an event that asks for a reopen: active = false, return Ok(())
RecvReopen ==
    /\ pc = "recv" /\ rx # <<>> /\ reopen(Head(rx)) /\ lock = "none"
    /\ active' = FALSE
    /\ pc' = "sleep"
    /\ rx' = <<>>
    /\ watched' = NoFile
    /\ file' = NoFile
    /\ UNCHANGED <<pin, pout, path, files, budget, offset, buffer, read_to, cur, lock, metrics,
                   scrape, hist>>

\* rx.recv() returns an event whose op is Err
RecvErr ==
    /\ pc = "recv" /\ rx # <<>> /\ ~Head(rx).ok
    /\ pc' = "exited"
    /\ rx' = Tail(rx)
    /\ UNCHANGED <<pin, pout, path, files, budget, file, watched, offset, buffer, read_to, cur, lock,
                   active, metrics, scrape, hist>>

\* rx.recv() returns a write or close-after-write event
RecvWrite ==
    /\ pc = "recv" /\ rx # <<>> /\ Head(rx).ok /\ ~reopen(Head(rx))
    /\ pc' = "size"
    /\ rx' = Tail(rx)
    /\ UNCHANGED <<pin, pout, path, files, budget, file, watched, offset, buffer, read_to, cur, lock,
                   active, metrics, scrape, hist>>

\* a size check that rewinds to the start of the file on truncation
checked_offset_rewind(size, off) == IF size < off THEN 0 ELSE off

\* the offset after the size check
checked_offset(size, off) == IF size < off THEN size ELSE off

\* "Check size": size = file.seek(SeekFrom::End(0)); truncation detection
Size ==
    /\ pc = "size"
    /\ LET size == Len(files[file])
       IN  /\ offset' = checked_offset(size, offset)
           /\ hist' = [hist EXCEPT !.truncated = size < offset, !.size = size]
    /\ pc' = "read"
    /\ UNCHANGED <<pin, pout, path, files, rx, budget, file, watched, buffer, read_to, cur, lock,
                   active, metrics, scrape>>

\* what read_to_string returns after file.seek(SeekFrom::Start(off))
read_from(content, off) == SubSeq(content, off + 1, Len(content))

\* "Read": seek to the offset, read to the end, advance the offset
Read ==
    /\ pc = "read"
    /\ LET res == read_from(files[file], offset)
       IN  /\ buffer' = buffer \o res
           /\ offset' = offset + Len(res)
    /\ read_to' = 0
    /\ pc' = "split"
    /\ hist' = [hist EXCEPT !.read_at = offset, !.batch = <<>>]
    /\ UNCHANGED <<pin, pout, path, files, rx, budget, file, watched, cur, lock, active, metrics,
                   scrape>>

\* buffer[read_to..].find('\n'): the length of the next line, or -1
next_line(buf, from) ==
    LET nls == {i \in (from + 1)..Len(buf) : buf[i] = NL}
    IN  IF nls = {} THEN -1 ELSE (CHOOSE i \in nls : \A j \in nls : i <= j) - from - 1

HasLine == pc = "split" /\ next_line(buffer, read_to) # -1

TheLine == SubSeq(buffer, read_to + 1, read_to + next_line(buffer, read_to))

\* what every iteration of the split loop does before the match on the outcome
TakeLine(result) ==
    /\ HasLine /\ lock = "none"
    /\ process_line(TailProcessor, TheLine).result = result
    /\ read_to' = read_to + next_line(buffer, read_to) + 1
    /\ hist' = [hist EXCEPT !.delivered = Append(@, TheLine), !.batch = Append(@, result)]

\* a worker that drops a failed line without counting it
LineError_uncounted ==
    /\ TakeLine("ParseError")
    /\ UNCHANGED <<pin, pout, path, files, rx, budget, pc, file, watched, offset, buffer, cur, lock,
                   active, metrics, scrape>>

\* Err(e): error_count.inc(); continue
LineError ==
    /\ TakeLine("ParseError")
    /\ error_count' = error_count + 1
    /\ UNCHANGED <<pin, pout, path, files, rx, budget, pc, file, watched, offset, buffer, cur, lock,
                   active, request_count, request_duration, response_body_size, scrape>>

\* Ok(false): continue
LineFiltered ==
    /\ TakeLine("Filtered")
    /\ UNCHANGED <<pin, pout, path, files, rx, budget, pc, file, watched, offset, buffer, cur, lock,
                   active, metrics, scrape>>

\* Ok(true): the lock stays held for the updates
LineMatched ==
    /\ TakeLine("Matched")
    /\ LET out == process_line(TailProcessor, TheLine)
       IN  cur' = [labels |-> out.labels, duration |-> out.duration,
                   response_body_size |-> out.response_body_size]
    /\ lock' = "worker"
    /\ pc' = "inc"
    /\ UNCHANGED <<pin, pout, path, files, rx, budget, file, watched, offset, buffer, active,
                   metrics, scrape>>

\* request_count.with_label_values(..).inc()
Inc ==
    /\ pc = "inc"
    /\ request_count' = IncAt(request_count, cur.labels)
    /\ pc' = "observe_duration"
    /\ UNCHANGED <<pin, pout, path, files, rx, budget, file, watched, offset, buffer, read_to, cur,
                   lock, active, request_duration, response_body_size, error_count,
                   scrape, hist>>

\* if let Some(d) = duration { request_duration...observe(d) }
ObserveDuration ==
    /\ pc = "observe_duration"
    /\ request_duration' = IF cur.duration.some
                           THEN ObserveAt(request_duration, cur.labels, cur.duration.val)
                           ELSE request_duration
    /\ pc' = "observe_size"
    /\ UNCHANGED <<pin, pout, path, files, rx, budget, file, watched, offset, buffer, read_to, cur,
                   lock, active, request_count, response_body_size, error_count, scrape,
                   hist>>

\* an iteration that ends with the guard still held
ObserveSize_keeps_guard ==
    /\ pc = "observe_size"
    /\ response_body_size' =
         IF cur.response_body_size.some
         THEN ObserveAt(response_body_size, cur.labels, cur.response_body_size.val)
         ELSE response_body_size
    /\ cur' = Idle
    /\ pc' = "split"
    /\ UNCHANGED <<pin, pout, path, files, rx, budget, file, watched, offset, buffer, read_to,
                   lock, active, request_count, request_duration, error_count, scrape, hist>>

\* if let Some(s) = response_body_size { response_body_size...observe(s) }; the
\* guard is dropped at the end of the iteration
ObserveSize ==
    /\ pc = "observe_size"
    /\ response_body_size' =
         IF cur.response_body_size.some
         THEN ObserveAt(response_body_size, cur.labels, cur.response_body_size.val)
         ELSE response_body_size
    /\ lock' = "none"
    /\ cur' = Idle
    /\ pc' = "split"
    /\ UNCHANGED <<pin, pout, path, files, rx, budget, file, watched, offset, buffer, read_to,
                   active, request_count, request_duration, error_count, scrape, hist>>

\* a drain that empties the buffer
Drain_clear ==
    /\ pc = "split" /\ next_line(buffer, read_to) = -1
    /\ buffer' = <<>>
    /\ read_to' = 0
    /\ pc' = "recv"
    /\ UNCHANGED <<pin, pout, path, files, rx, budget, file, watched, offset, cur, lock, active,
                   metrics, scrape, hist>>

\* no newline is left: buffer.drain(0..read_to), back to rx.recv()
Drain ==
    /\ pc = "split" /\ next_line(buffer, read_to) = -1
    /\ buffer' = SubSeq(buffer, read_to + 1, Len(buffer))
    /\ read_to' = 0
    /\ pc' = "recv"
    /\ UNCHANGED <<pin, pout, path, files, rx, budget, file, watched, offset, cur, lock, active,
                   metrics, scrape, hist>>

\* std::thread::sleep(2 s), then the loop of start_thread calls watch_log again
Sleep ==
    /\ pc = "sleep"
    /\ pc' = "open"
    /\ UNCHANGED <<pin, pout, path, files, rx, budget, file, watched, offset, buffer, read_to, cur,
                   lock, active, metrics, scrape, hist>>

Worker ==
    \/ OpenMissing \/ OpenOk \/ OpenFail \/ Watch \/ Seek \/ Activate \/ IoFail
    \/ RecvReopen \/ RecvErr \/ RecvWrite \/ Size \/ Read
    \/ LineError \/ LineFiltered \/ LineMatched \/ Inc \/ ObserveDuration
    \/ ObserveSize \/ Drain \/ Sleep

Environment == AppendChunk \/ Truncate \/ Remove \/ Create \/ Note

Init == TailInit(MaxEnvOps) /\ PureIdle

Next == Worker \/ Environment \/ Collect

Spec == Init /\ [][Next]_vars

\* the steps of start_thread and watch_log that lead from a clean return to the
\* next watch; none of them waits for the environment
Reconnect ==
    Sleep \/ OpenMissing \/ OpenOk \/ OpenFail \/ Watch \/ Seek \/ Activate \/ IoFail

InitLive == TailInit(LiveEnvOps) /\ PureIdle

\* the worker thread is scheduled: it does not stop for ever in front of a
\* step it can take (rx.recv() is the only place where it waits)
SpecLive == InitLive /\ [][Next]_vars /\ WF_vars(Reconnect)

-----------------------------------------------------------------------------
(* The pure components, each applied to inputs drawn from bounded sets     *)

\* the tail engine at rest while a pure component is exercised
TailIdle == TailInit(0) /\ path = NoFile

RECURSIVE Concat(_)
\* the concatenation of a sequence of texts
Concat(ss) == IF ss = <<>> THEN <<>> ELSE Head(ss) \o Concat(Tail(ss))

\* all texts over alphabet of length at most n
Texts(alphabet, n) == UNION {[1..k -> alphabet] : k \in 0..n}

\* ---- format compiler ----

\* longest body of a format description
MaxBodyLen == 4

\* most blanks put before and after the log_format spelling
MaxPad == 1

BodyChars == {"$", "l", "o", "-"}

Blanks(n) == [i \in 1..n |-> " "]

LogFormatWord == <<"l", "o", "g", "_", "f", "o", "r", "m", "a", "t">>

CombinedWord == <<"c", "o", "m", "b", "i", "n", "e", "d">>

\* log_format combined '<body>';
SpellCombined(body) == LogFormatWord \o <<" ">> \o CombinedWord \o <<" ", "'">> \o body \o <<"'", ";">>

\* log_format '<body>'; with blanks around it
SpellPlain(body, lead, trail) ==
    Blanks(lead) \o LogFormatWord \o <<" ", "'">> \o body \o <<"'", ";">> \o Blanks(trail)

FormatInit ==
    /\ TailIdle
    /\ pin \in [body : Texts(BodyChars, MaxBodyLen) \ {<<>>}, lead : 0..MaxPad,
                trail : 0..MaxPad]
    /\ pout = NotRun

\* LogParser::from_format on the three spellings of pin.body
CompileSpellings ==
    /\ ~pout.done
    /\ pout' = [done |-> TRUE,
                combined |-> compile(SpellCombined(pin.body)),
                plain |-> compile(SpellPlain(pin.body, pin.lead, pin.trail)),
                bare |-> compile(pin.body)]
    /\ UNCHANGED <<pin, tailVars>>

SpecFormat == FormatInit /\ [][CompileSpellings]_vars

\* ---- line parser ----

\* longest line given to the line parser
MaxLineLen == 4

LineChars == {"1", "x", " "}

\* "$a $b", "$status $a" and "[$a]"
ParserFormats ==
    { <<"$", "a", " ", "$", "b">>,
      <<"$", "s", "t", "a", "t", "u", "s", " ", "$", "a">>,
      <<"[", "$", "a", "]">> }

ParserInit ==
    /\ TailIdle
    /\ pin \in [tokens : {compile(f).fields : f \in ParserFormats},
                line : Texts(LineChars \cup {"[", "]"}, MaxLineLen)]
    /\ pout = NotRun

\* LogParser::parse on pin.line
ParseLine ==
    /\ ~pout.done
    /\ pout' = [done |-> TRUE, result |-> parse(pin.tokens, pin.line)]
    /\ UNCHANGED <<pin, tailVars>>

SpecParser == ParserInit /\ [][ParseLine]_vars

\* ---- line processor ----

\* "$host $remote_user $status $request_time $body_bytes_sent"
ProcFormat ==
    <<"$", "h", "o", "s", "t", " ",
      "$", "r", "e", "m", "o", "t", "e", "_", "u", "s", "e", "r", " ",
      "$", "s", "t", "a", "t", "u", "s", " ",
      "$", "r", "e", "q", "u", "e", "s", "t", "_", "t", "i", "m", "e", " ",
      "$", "b", "o", "d", "y", "_", "b", "y", "t", "e", "s", "_", "s", "e", "n", "t">>

ProcFields == <<"host", "remote_user", "status", "request_time", "body_bytes_sent">>

\* the values a field of a generated line takes
FieldValues == {<<"1">>, <<"2">>, <<"x">>, <<"-">>}

AutoBuilder == new(compile(ProcFormat).fields)

\* the filter <field>:^1$ added to the auto-registered pipeline; "" adds none
Pipeline(filtered) ==
    IF filtered = "" THEN build_processor(AutoBuilder)
    ELSE build_processor(add_filter(AutoBuilder, filtered, Regex(TRUE, <<"1">>)).b)

\* the line of the format ProcFormat whose fields hold vals
LineOf(vals) ==
    vals[1] \o <<" ">> \o vals[2] \o <<" ">> \o vals[3] \o <<" ">> \o vals[4] \o <<" ">> \o vals[5]

ProcInit ==
    /\ TailIdle
    /\ pin \in [filtered : {""} \cup {ProcFields[i] : i \in 1..Len(ProcFields)},
                vals : [1..Len(ProcFields) -> FieldValues]]
    /\ pout = NotRun

\* LogProcessor::process_line on the line of pin.vals
ProcessLine ==
    /\ ~pout.done
    /\ pout' = [done |-> TRUE, out |-> process_line(Pipeline(pin.filtered), LineOf(pin.vals))]
    /\ UNCHANGED <<pin, tailVars>>

SpecProcessor == ProcInit /\ [][ProcessLine]_vars

-----------------------------------------------------------------------------
(* Properties of the tail engine and the sink                              *)

\* the length of the longest prefix of text that ends with a newline
CompletePrefix(text) ==
    LET nls == {i \in 1..Len(text) : text[i] = NL}
    IN  IF nls = {} THEN 0 ELSE CHOOSE i \in nls : \A j \in nls : j <= i

\* the lines handed to process_line so far, as they stood in the file
DeliveredText == Concat([i \in 1..Len(hist.delivered) |-> hist.delivered[i] \o <<NL>>])

\* the newline-terminated lines appended since the first watch was established
AppendedLines == SubSeq(hist.appended, 1, CompletePrefix(hist.appended))

IsPrefix(s, t) == Len(s) <= Len(t) /\ s = SubSeq(t, 1, Len(s))

\* the worker is blocked in rx.recv() with no event pending
Blocked == pc = "recv" /\ rx = <<>>

\* C1: every newline-terminated line appended after the watch is established
\* is handed to process_line exactly once and in file order: what has been
\* delivered is always a prefix of what was appended, and whenever the worker
\* is blocked waiting for an event it has delivered all of it.
C1_DeliveredExactlyOnceInOrder ==
    /\ IsPrefix(DeliveredText, AppendedLines)
    /\ Blocked => DeliveredText = AppendedLines

\* C2: while `active` is false (before the first watch, while the file is
\* missing, between a rotation event and the next re-watch) collect returns no
\* metric family; it returns the four families only while `active` is true.
C2_CollectEmptyIffInactive ==
    /\ pc \in {"open", "watch", "seek", "activate", "sleep"} => ~active
    /\ Len(collect) = IF active THEN 4 ELSE 0
    /\ active => collect = <<request_count, request_duration, response_body_size, error_count>>
    /\ scrape.taken => Len(scrape.families) = IF scrape.active THEN 4 ELSE 0

\* a scrape taken after a rotation, before the next watch, returned nothing
C2_ScrapedWhileInactive ==
    /\ scrape.taken /\ ~scrape.active /\ Len(scrape.families) = 0
    /\ ~active /\ hist.sessions = 1 /\ pc \in {"sleep", "open", "watch", "seek", "activate"}

\* C3: a line whose processing ends in a ParseError adds exactly one to the
\* error counter, leaves the request counter and both histograms unchanged, and
\* the worker goes on with the rest of the same batch: it stays in the split
\* loop, past that line, without re-reading.
C3_ParseErrorCountedOnce ==
    [][(/\ pc = "split" /\ next_line(buffer, read_to) # -1
        /\ process_line(TailProcessor, TheLine).result = "ParseError"
        /\ read_to' # read_to)
       => /\ error_count' = error_count + 1
          /\ UNCHANGED <<request_count, request_duration, response_body_size, active, lock>>
          /\ pc' = "split"
          /\ buffer' = buffer
          /\ read_to' = read_to + next_line(buffer, read_to) + 1]_vars

\* a batch of two lines: the first failed and was counted, the second matched
C3_ErrorThenMatchInOneBatch ==
    /\ hist.batch = <<"ParseError", "Matched">>
    /\ error_count = 1
    /\ pc = "recv"

\* C5: when the size observed on a write event is smaller than the stored
\* offset, the offset becomes that size, the worker stays in the event loop with
\* `active` true, and the next read starts at the new offset: it appends to the
\* buffer exactly the bytes from the offset to the end of the file.
C5_TruncationResetsOffset ==
    /\ [][(pc = "size" /\ pc' = "read" /\ Len(files[file]) < offset)
          => (offset' = Len(files[file]) /\ active /\ active' /\ buffer' = buffer)]_vars
    /\ [][(pc = "read" /\ pc' = "split")
          => /\ buffer' = buffer \o SubSeq(files[file], offset + 1, Len(files[file]))
             /\ offset' = offset + (Len(buffer') - Len(buffer))
             /\ active']_vars
    /\ [](pc = "read" /\ hist.truncated => offset = hist.size)

\* a truncation to a non-empty file was detected and the read that followed
\* started at the new size and returned bytes written after the truncation
C5_ReadAfterTruncation ==
    /\ hist.truncated /\ hist.size > 0
    /\ pc = "split" /\ hist.read_at = hist.size
    /\ buffer # <<>> /\ active

\* C6: when the file does not exist at open time watch_log returns cleanly: no
\* watch is created, `active` and every counter are untouched and the worker
\* sleeps; an open of an existing path either succeeds or ends the process.
C6_MissingFileReturnsCleanly ==
    /\ [][(pc = "open" /\ path = NoFile /\ pc' # pc)
          => (pc' = "sleep" /\ ~active' /\ UNCHANGED <<active, metrics, watched, rx, file>>)]_vars
    /\ [][(pc = "open" /\ path # NoFile /\ pc' # pc) => pc' \in {"watch", "exited"}]_vars
    /\ [][pc' = "exited" => pc \in {"open", "watch", "seek", "size", "read", "recv"}]_vars

\* the open step found no file and the worker is in its cool-down
C6_SleepingAfterMissingFile ==
    /\ hist.opened = 1 /\ pc = "sleep"
    /\ ~active /\ watched = NoFile /\ hist.sessions = 0

\* C7: an event whose operations are not all among WRITE and CLOSE_WRITE makes
\* the worker clear `active` and return without reading; after a clean return it
\* sleeps and runs the open step again; so if from some point on the file
\* exists and the process has not exited, `active` is true again and again.
C7_RotationThenRetry ==
    /\ [][(/\ pc = "recv" /\ rx # <<>> /\ Head(rx).ok
           /\ ~(Head(rx).op \subseteq {"WRITE", "CLOSE_WRITE"})
           /\ pc' # pc)
          => (pc' = "sleep" /\ ~active' /\ UNCHANGED <<buffer, offset, metrics>>)]_vars
    /\ [][(pc = "sleep" /\ pc' # pc) => pc' = "open"]_vars
    /\ (<>[](path # NoFile /\ pc # "exited") => []<>active)

\* the worker is tailing the file for the second time, after a rotation
C7_ActiveAgain == active /\ hist.sessions = 2 /\ pc = "recv"

-----------------------------------------------------------------------------
(* Properties of the format compiler, the line parser and the processor    *)

RECURSIVE Render(_)
\* the body a token sequence stands for: "$name" for a Field, the text of a Str
Render(tokens) ==
    IF tokens = <<>> THEN ""
    ELSE LET t == Head(tokens)
         IN  (IF t.type = "Field" THEN "$" \o FieldName(t.field) ELSE Join(t.s))
             \o Render(Tail(tokens))

\* no Str token is followed by a Str token: every Str is a maximal run
MaximalRuns(tokens) ==
    \A i \in 1..(Len(tokens) - 1) : ~(tokens[i].type = "Str" /\ tokens[i + 1].type = "Str")

\* C10: the three spellings of a format description with the same body (a
\* body without single quote) compile to the same token sequence, and when
\* they compile the tokens are the body's: one Field per placeholder, one Str
\* per maximal run of other characters, in order.
C10_SpellingsCompileAlike ==
    pout.done =>
        /\ pout.combined = pout.plain
        /\ pout.plain = pout.bare
        /\ pout.bare.ok => (Render(pout.bare.fields) = Join(pin.body)
                            /\ MaximalRuns(pout.bare.fields))

\* where the tokens of a format cut a line: cuts[i] is the end of token i
Cuts(tokens, line) ==
    {c \in [0..Len(tokens) -> 0..Len(line)] :
        /\ c[0] = 0
        /\ c[Len(tokens)] = Len(line)
        /\ \A i \in 1..Len(tokens) : c[i - 1] <= c[i]}

\* the part of the line given to token i
Span(line, c, i) == SubSeq(line, c[i - 1] + 1, c[i])

\* the line satisfies every literal boundary: each Str token lies on its own
\* text and the value in front of a Str holds none of its first character
Fits(tokens, line, c) ==
    \A i \in 1..Len(tokens) :
        IF tokens[i].type = "Str" THEN Span(line, c, i) = tokens[i].s
        ELSE i < Len(tokens) =>
                 \A k \in 1..Len(Span(line, c, i)) : Span(line, c, i)[k] # tokens[i + 1].s[1]

\* the spans of the Field tokens, in token order
FieldSpans(tokens, line, c) ==
    LET idx == SelectSeq([i \in 1..Len(tokens) |-> i], LAMBDA i : tokens[i].type = "Field")
    IN  [k \in 1..Len(idx) |-> Span(line, c, idx[k])]

\* C8: for every line that satisfies every literal boundary of the tokens the
\* parser succeeds and returns one value per Field token, in token order, each
\* equal to the substring between the surrounding literals; parsing the line
\* again gives the same output.
C8_ParserReturnsBoundedSubstrings ==
    pout.done =>
        /\ \A c \in Cuts(pin.tokens, pin.line) :
               Fits(pin.tokens, pin.line, c) =>
                   /\ pout.result.ok
                   /\ [k \in 1..Len(pout.result.values) |-> pout.result.values[k].value]
                        = FieldSpans(pin.tokens, pin.line, c)
        /\ parse(pin.tokens, pin.line) = pout.result

\* the predicate of the filter ^1$
PassesFilter(value) == value = <<"1">>

\* C4: in a pipeline with a filter on field f, a line whose value for f fails
\* the filter's predicate is reported Filtered, whatever the other fields of
\* the line hold.
C4_FailedFilterMeansFiltered ==
    (pout.done /\ pin.filtered # "") =>
        \A i \in 1..Len(ProcFields) :
            (ProcFields[i] = pin.filtered /\ ~PassesFilter(pin.vals[i]))
                => pout.out.result = "Filtered"

\* the values a numeric field of a generated line takes
NumericValues == {<<"1">>, <<"2">>}

\* C9: with the auto-registered extractors only and the format host,
\* remote_user, status, request_time, body_bytes_sent, every line with numeric
\* request_time and body_bytes_sent is Matched with the labels vhost = raw
\* host, user = no for "-" and yes otherwise, status = raw status, the duration
\* of request_time and the size of body_bytes_sent.
C9_AutoExtractorsLabelLine ==
    (pout.done /\ pin.filtered = "" /\ pin.vals[4] \in NumericValues
               /\ pin.vals[5] \in NumericValues) =>
        /\ Pipeline("").labels = <<"vhost", "user", "status">>
        /\ pout.out.result = "Matched"
        /\ pout.out.labels = <<pin.vals[1],
                               IF pin.vals[2] = <<"-">> THEN <<"n", "o">>
                               ELSE <<"y", "e", "s">>,
                               pin.vals[3]>>
        /\ pout.out.duration = Some(ParseF32(pin.vals[4]).val)
        /\ pout.out.response_body_size = Some(ParseUnsigned(pin.vals[5], U64Cap).val)

-----------------------------------------------------------------------------
(* Further properties of the format compiler                               *)

\* no Field token is followed by a Field token
SeparatedFields(tokens) ==
    \A i \in 1..(Len(tokens) - 1) :
        ~(tokens[i].type = "Field" /\ tokens[i + 1].type = "Field")

\* C11: every token sequence the compiler returns successfully has no two
\* consecutive Field tokens: a body with two placeholders and no literal
\* between them is rejected when it is compiled, in each of the spellings.
C11_NoAdjacentFieldsCompiled ==
    pout.done =>
        /\ pout.bare.ok => SeparatedFields(pout.bare.fields)
        /\ pout.plain.ok => SeparatedFields(pout.plain.fields)
        /\ pout.combined.ok => SeparatedFields(pout.combined.fields)

\* ---- what follows the closing quote ----

\* longest text put after the closing quote
MaxTrailLen == 3

TrailChars == {" ", ";", "x"}

\* "o", "$o" and "- $o"
QuotedBodies == { <<"o">>, <<"$", "o">>, <<"-", " ", "$", "o">> }

\* log_format '<body>'<trailer>
SpellTrailer(body, trailer) == LogFormatWord \o <<" ", "'">> \o body \o <<"'">> \o trailer

TrailerInit ==
    /\ TailIdle
    /\ pin \in [body : QuotedBodies, trailer : Texts(TrailChars, MaxTrailLen)]
    /\ pout = NotRun

\* LogParser::from_format on log_format '<body>' followed by pin.trailer
CompileTrailer ==
    /\ ~pout.done
    /\ pout' = [done |-> TRUE, result |-> compile(SpellTrailer(pin.body, pin.trailer))]
    /\ UNCHANGED <<pin, tailVars>>

SpecTrailer == TrailerInit /\ [][CompileTrailer]_vars

\* an optional ';' and then whitespace only
BlankTrailer(trailer) ==
    LET rest == IF trailer # <<>> /\ Head(trailer) = ";" THEN Tail(trailer) ELSE trailer
    IN  \A i \in 1..Len(rest) : rest[i] \in WhiteSpace

\* C12: in the log_format form the compiler accepts, after the closing quote,
\* an optional ';' followed by whitespace only: such an input compiles to the
\* tokens of its body, with or without the ';', and an input with any other
\* character after the quote is rejected.
C12_OnlyBlanksAfterQuote ==
    pout.done =>
        IF BlankTrailer(pin.trailer)
        THEN pout.result = compile(pin.body) /\ pout.result.ok
        ELSE ~pout.result.ok

\* the body grammar applied to a whole text
BodyTokens(body) ==
    LET b == parse_format(body, 1, <<>>)
    IN  IF b.ok /\ AtEnd(body, b.pos) THEN [ok |-> TRUE, fields |-> b.fields] ELSE Failed

\* C13: a non-empty input that does not start with the complete word
\* log_format is compiled as a body from its first character: the result is
\* the body-grammar parse of the whole input and no character is dropped (a
\* proper prefix of log_format compiles to one Str token holding it).
C13_BareInputIsWholeBody ==
    pout.done =>
        /\ pout.bare = BodyTokens(pin.body)
        /\ pout.bare.ok => Render(pout.bare.fields) = Join(pin.body)
        /\ pin.body \in {<<"l">>, <<"l", "o">>} => pout.bare.fields = <<Str(pin.body)>>

-----------------------------------------------------------------------------
(* The pipeline builder as a state machine: new, then add_filter and       *)
(* add_extractor calls, build_processor and process_line at any point      *)

\* most add_filter / add_extractor calls on one builder
MaxCalls == 2

\* "$status $host $status" and "$host $request_time"
BuilderFormats ==
    { <<"$", "s", "t", "a", "t", "u", "s", " ", "$", "h", "o", "s", "t", " ",
        "$", "s", "t", "a", "t", "u", "s">>,
      TailFormat }

\* the field names given to add_filter and add_extractor; no format declares "zz"
CallFields == {"status", "host", "zz"}

\* the label names given to add_extractor; "" stands for None
CallLabels == {"", "status", "x"}

\* the transforms given to add_extractor
CallFuncs == {"Host", "Duration"}

\* the lines given to the built processor
BuilderLines == { <<"1", " ", "1", " ", "1">>, <<"1", " ", "a", " ", "1">>, <<"a", " ", "1">>, <<"x">> }

BuilderInit ==
    /\ TailIdle
    /\ pin \in {[b |-> new(compile(f).fields), calls |-> 0] : f \in BuilderFormats}
    /\ pout = NotRun

\* collector_builder.add_filter(field, FilterFunc::Regex { ^1$ })
AddFilter ==
    /\ pin.calls < MaxCalls
    /\ \E field \in CallFields :
         LET r == add_filter(pin.b, field, Regex(TRUE, <<"1">>))
         IN  /\ pin' = [b |-> r.b, calls |-> pin.calls + 1]
             /\ pout' = [done |-> TRUE, op |-> "add_filter", field |-> field, ok |-> r.ok]
    /\ UNCHANGED tailVars

\* collector_builder.add_extractor(label, field, func)
AddExtractor ==
    /\ pin.calls < MaxCalls
    /\ \E lbl \in CallLabels, field \in CallFields, kind \in CallFuncs :
         LET r == add_extractor(pin.b, lbl, field, Func(kind))
         IN  /\ pin' = [b |-> r.b, calls |-> pin.calls + 1]
             /\ pout' = [done |-> TRUE, op |-> "add_extractor", lbl |-> lbl,
                         field |-> field, kind |-> kind, ok |-> r.ok,
                         idx |-> IF lbl = "" THEN -1 ELSE label(pin.b.labels, lbl).idx]
    /\ UNCHANGED tailVars

\* build_processor on the builder as it stands, then process_line on a line
BuildAndProcess ==
    /\ \E line \in BuilderLines :
         pout' = [done |-> TRUE, op |-> "process_line", line |-> line,
                  p |-> build_processor(pin.b),
                  out |-> process_line(build_processor(pin.b), line)]
    /\ UNCHANGED <<pin, tailVars>>

BuilderNext == AddFilter \/ AddExtractor \/ BuildAndProcess

SpecBuilder == BuilderInit /\ [][BuilderNext]_vars

-----------------------------------------------------------------------------
(* Properties of the pipeline builder                                      *)

NoDuplicate(seq) == \A i, j \in 1..Len(seq) : seq[i] = seq[j] => i = j

\* every index handed out to an extractor still names the extractor's label
IndicesPointToNames(b) ==
    \A k \in 1..Len(b.extractors) :
        b.extractors[k].label.some =>
            /\ b.extractors[k].label.idx < Len(b.labels)
            /\ b.labels[b.extractors[k].label.idx + 1] = b.extractors[k].label.name

\* C14: after any sequence of new and add_extractor calls the label list has
\* no duplicate name; a request for an existing name returns its index and
\* leaves the list unchanged, a request for a new name appends it and returns
\* the new last index, and the indices already handed out never change.
C14_LabelsDeduplicated ==
    /\ [](NoDuplicate(pin.b.labels) /\ IndicesPointToNames(pin.b))
    /\ [][(pin'.calls = pin.calls + 1 /\ pout'.op = "add_extractor" /\ pout'.lbl # "")
          => IF \E i \in 1..Len(pin.b.labels) : pin.b.labels[i] = pout'.lbl
             THEN /\ pin'.b.labels = pin.b.labels
                  /\ pin.b.labels[pout'.idx + 1] = pout'.lbl
             ELSE /\ pin'.b.labels = Append(pin.b.labels, pout'.lbl)
                  /\ pout'.idx = Len(pin'.b.labels) - 1]_vars
    /\ [][/\ Len(pin'.b.labels) >= Len(pin.b.labels)
          /\ \A i \in 1..Len(pin.b.labels) : pin'.b.labels[i] = pin.b.labels[i]
          /\ \A k \in 1..Len(pin.b.extractors) :
                 pin'.b.extractors[k].label = pin.b.extractors[k].label]_vars

\* a new name was appended by the first call, then the second call asked for
\* the name the auto-registration had put at index 0
C14_ExistingNameRequested ==
    /\ pout.done /\ pout.op = "add_extractor"
    /\ pin.calls = 2
    /\ pout.lbl = "status" /\ pout.idx = 0
    /\ pin.b.labels = <<"status", "vhost", "x">>

\* the positions (0-based) of the fields called name
PositionsOf(fields, name) == {i \in 0..(Len(fields) - 1) : fields[i + 1] = name}

\* the smallest element of a non-empty set of numbers
Least(S) == CHOOSE i \in S : \A j \in S : i <= j

\* C15: add_filter and add_extractor register the rule at the first position
\* of Fields that carries the given name, also when the name occurs several
\* times; when no field has the name they return an error and the filter list
\* and the extractor list stay as they were.
C15_FirstPositionOrError ==
    /\ [][(pin'.calls = pin.calls + 1 /\ pout'.op = "add_filter")
          => LET at == PositionsOf(pin.b.fields, pout'.field)
             IN  /\ pin'.b.extractors = pin.b.extractors
                 /\ IF at = {}
                    THEN ~pout'.ok /\ pin'.b.filters = pin.b.filters
                    ELSE /\ pout'.ok
                         /\ Len(pin'.b.filters) = Len(pin.b.filters) + 1
                         /\ SubSeq(pin'.b.filters, 1, Len(pin.b.filters)) = pin.b.filters
                         /\ pin'.b.filters[Len(pin'.b.filters)].field_index = Least(at)]_vars
    /\ [][(pin'.calls = pin.calls + 1 /\ pout'.op = "add_extractor")
          => LET at == PositionsOf(pin.b.fields, pout'.field)
             IN  /\ pin'.b.filters = pin.b.filters
                 /\ IF at = {}
                    THEN ~pout'.ok /\ pin'.b.extractors = pin.b.extractors
                    ELSE /\ pout'.ok
                         /\ Len(pin'.b.extractors) = Len(pin.b.extractors) + 1
                         /\ SubSeq(pin'.b.extractors, 1, Len(pin.b.extractors))
                              = pin.b.extractors
                         /\ pin'.b.extractors[Len(pin'.b.extractors)].field_index = Least(at)
                         /\ pin'.b.extractors[Len(pin'.b.extractors)].func.kind
                              = pout'.kind]_vars

\* a filter was added on "status", which the format declares at positions 0
\* and 2, after a call naming a field the format does not declare had failed
C15_FilterOnRepeatedField ==
    /\ pout.done /\ pout.op = "add_filter" /\ pout.field = "status" /\ pout.ok
    /\ pin.b.fields = <<"status", "host", "status">>
    /\ pin.calls = 2
    /\ Len(pin.b.filters) = 1 /\ pin.b.filters[1].field_index = 0
    /\ Len(pin.b.extractors) = 3

-----------------------------------------------------------------------------
(* Further properties of the line processor                                *)

\* C16: whatever the status field holds, numeric or not, the status label of
\* a Matched line is the raw text of the field, and the status field alone
\* never makes a line a ParseError: a line whose request_time and
\* body_bytes_sent are numeric is not a ParseError.
C16_StatusCopiedVerbatim ==
    (pout.done /\ pin.filtered = "") =>
        /\ pout.out.result = "Matched" => pout.out.labels[3] = pin.vals[3]
        /\ (pin.vals[4] \in NumericValues /\ pin.vals[5] \in NumericValues)
               => pout.out.result # "ParseError"

-----------------------------------------------------------------------------
(* Further properties of the tail engine                                   *)

\* the positions of the worker inside a watch session, after the seek
InSession ==
    pc \in {"activate", "recv", "size", "read", "split", "inc", "observe_duration",
            "observe_size"}

\* C17: no byte that was in the file when the worker recorded its starting
\* offset is handed to process_line in that watch session: the session starts
\* with an empty buffer, the offset never lies before those bytes, and every
\* read appends to the buffer only bytes from the offset on.
C17_OldBytesNeverRead ==
    /\ [](InSession => offset >= hist.old)
    /\ [][(pc = "activate" /\ pc' = "recv") => buffer' = <<>>]_vars
    /\ [][(pc = "read" /\ pc' = "split")
          => /\ offset >= hist.old
             /\ buffer' = buffer \o SubSeq(files[file], offset + 1, Len(files[file]))]_vars
    /\ [][(InSession /\ buffer' # buffer)
          => (pc \in {"read", "split", "activate"} /\ pc' \in {"split", "recv"})]_vars

\* a session that started on a file holding a line has read what was written
\* after its start, and only that
C17_ReadPastOldContent ==
    /\ hist.old > 0 /\ pc = "split"
    /\ hist.read_at = hist.old
    /\ buffer = SubSeq(files[file], hist.old + 1, Len(files[file]))
    /\ buffer # <<>>

\* the rules of seq registered at field position k, in the order of seq
AtPosition(seq, k) ==
    LET here(r) == r.field_index = k IN SelectSeq(seq, here)

\* sorted is registered, sorted by ascending field position, rules of equal
\* position in registration order
StablySorted(registered, sorted) ==
    /\ Len(sorted) = Len(registered)
    /\ \A i \in 1..(Len(sorted) - 1) : sorted[i].field_index <= sorted[i + 1].field_index
    /\ \A k \in 0..(Len(pin.b.fields) - 1) : AtPosition(sorted, k) = AtPosition(registered, k)

\* 0, 1, ..., n - 1
Indices(n) == [i \in 1..n |-> i - 1]

\* C18: the processor built from any sequence of registrations holds its
\* filters and its extractors sorted by ascending field position, rules of
\* equal position in registration order; a line that ends Matched has run
\* every filter and every extractor exactly once, in list order.
C18_RulesSortedAndAllRun ==
    (pout.done /\ pout.op = "process_line")
    => /\ StablySorted(pin.b.filters, pout.p.filters)
       /\ StablySorted(pin.b.extractors, pout.p.extractors)
       /\ pout.out.result = "Matched"
          => /\ pout.out.checked = Indices(Len(pout.p.filters))
             /\ pout.out.ran = Indices(Len(pout.p.extractors))

\* a filter and an extractor declared on the first field after the automatic
\* extractors of later fields: the sort moves the extractor forward, and a
\* matched line runs all four extractors and the filter
C18_LateRuleOnFirstField ==
    /\ pout.done /\ pout.op = "process_line" /\ pout.out.result = "Matched"
    /\ Len(pin.b.filters) = 1
    /\ Len(pin.b.extractors) = 4 /\ pin.b.extractors[4].field_index = 0
    /\ pout.p.extractors # pin.b.extractors
    /\ pout.p.extractors[2] = pin.b.extractors[4]

\* the field names LogCollectorBuilder::new recognizes, with the kind of
\* extractor it registers for each
AutoKind ==
    [remote_user |-> "User", status |-> "Status", request_time |-> "Duration",
     host |-> "Host", body_bytes_sent |-> "ResponseBodySize"]

\* C19: LogCollectorBuilder::new registers exactly one extractor for each
\* recognized name present in Fields (also when it occurs more than once) and
\* none for an absent one, and the automatic extractors precede every
\* user-declared extractor in registration order.
C19_OneAutoExtractorPerName ==
    LET auto == new(pin.b.tokens).extractors
    IN  /\ Len(pin.b.extractors) >= Len(auto)
        /\ SubSeq(pin.b.extractors, 1, Len(auto)) = auto
        /\ \A name \in DOMAIN AutoKind :
             Cardinality({i \in 1..Len(auto) : auto[i].func.kind = AutoKind[name]})
               = IF \E k \in 1..Len(pin.b.fields) : pin.b.fields[k] = name THEN 1 ELSE 0

\* the characters of text after its last newline (all of it without one)
AfterLastNewline(text) ==
    LET nls == {i \in 1..Len(text) : text[i] = NL}
        last == IF nls = {} THEN 0 ELSE CHOOSE i \in nls : \A j \in nls : j <= i
    IN  SubSeq(text, last + 1, Len(text))

\* C20: whenever the worker waits for the next event, and until the read that
\* follows, the carry-over buffer holds no newline; the lines of a batch leave
\* the buffer as the read filled it, and when the batch ends the buffer holds
\* exactly what was read after the last newline, whatever the outcomes of the
\* lines were.
C20_CarryOverHasNoNewline ==
    /\ [](pc \in {"recv", "size", "read"} => \A i \in 1..Len(buffer) : buffer[i] # NL)
    /\ [][(pc = "split" /\ pc' # "recv") => buffer' = buffer]_vars
    /\ [][(pc = "split" /\ pc' = "recv") => buffer' = AfterLastNewline(buffer)]_vars

\* a batch of a failed line, a matched line and the start of a third line has
\* ended: the worker waits with the start of the third line in the buffer
C20_PartialLineCarriedOver ==
    /\ pc = "recv"
    /\ hist.batch = <<"ParseError", "Matched">>
    /\ buffer = <<"a", " ">>

\* the positions of the worker between taking the lock for a matched line and
\* dropping it at the end of the iteration
Updating == pc \in {"inc", "observe_duration", "observe_size"}

-----------------------------------------------------------------------------
(* Further properties of the line parser                                   *)

NoValues == [ok |-> FALSE, values |-> <<>>]

RECURSIVE Scan(_, _, _, _)
\* the texts of the fields of line from token i on, the cursor at c, read by
\* the rule of the format: a literal is matched in place, a field followed by
\* a literal runs up to the first occurrence of the literal's first character
\* at or after the cursor, the last field takes the rest of the line
Scan(tokens, line, i, c) ==
    IF i > Len(tokens) THEN [ok |-> TRUE, values |-> <<>>]
    ELSE IF tokens[i].type = "Str"
    THEN LET n == Len(tokens[i].s)
         IN  IF c + n - 1 <= Len(line) /\ SubSeq(line, c, c + n - 1) = tokens[i].s
             THEN Scan(tokens, line, i + 1, c + n)
             ELSE NoValues
    ELSE IF i = Len(tokens) THEN [ok |-> TRUE, values |-> <<SubSeq(line, c, Len(line))>>]
    ELSE IF tokens[i + 1].type # "Str" THEN NoValues
    ELSE LET occ == {j \in c..Len(line) : line[j] = tokens[i + 1].s[1]}
         IN  IF occ = {} THEN NoValues
             ELSE LET first == CHOOSE j \in occ : \A k \in occ : j <= k
                      rest == Scan(tokens, line, i + 1, first)
                  IN  IF rest.ok
                      THEN [ok |-> TRUE, values |-> <<SubSeq(line, c, first - 1)>> \o rest.values]
                      ELSE NoValues

\* the texts of the values a parse returned
ValueTexts(result) == [i \in 1..Len(result.values) |-> result.values[i].value]

\* C22: the value of a field followed by a literal is the text from the cursor
\* up to the first occurrence of the literal's first character, never a later
\* one; a line that ends before that character is found fails to parse and
\* returns no value.
C22_FieldEndsAtFirstSeparator ==
    pout.done
    => LET ref == Scan(pin.tokens, pin.line, 1, 1)
       IN  /\ ~ref.ok => pout.result = ParseFailed
           /\ pout.result.ok => (ref.ok /\ ValueTexts(pout.result) = ref.values)

\* "$a $b" on a line with two blanks: $a stops at the first
C22_TwoSeparatorsInLine ==
    /\ pout.done /\ pout.result.ok
    /\ pin.tokens = compile(<<"$", "a", " ", "$", "b">>).fields
    /\ pin.line = <<"1", " ", "x", " ">>
    /\ ValueTexts(pout.result) = << <<"1">>, <<"x", " ">> >>

\* the format ends with a literal
EndsWithLiteral(tokens) == tokens # <<>> /\ tokens[Len(tokens)].type = "Str"

\* C23: when the format ends with a literal, a line made of a line that
\* parses followed by extra characters parses too, with the same values.
C23_ExtraCharactersIgnored ==
    (pout.done /\ EndsWithLiteral(pin.tokens))
    => \A k \in 0..(Len(pin.line) - 1) :
         LET short == parse(pin.tokens, SubSeq(pin.line, 1, k))
         IN  short.ok => pout.result = short

\* "[$a]" on "[1]x": the x after the closing bracket is not looked at
C23_CharacterAfterLastLiteral ==
    /\ pout.done /\ pout.result.ok
    /\ pin.tokens = compile(<<"[", "$", "a", "]">>).fields
    /\ pin.line = <<"[", "1", "]", "x">>
    /\ ValueTexts(pout.result) = << <<"1">> >>

-----------------------------------------------------------------------------
(* Scrapes against the updates of a line                                   *)

\* the histogram holds, for every label vector, as many samples as the counter
\* counts, and nothing else
SameCounts(counter, histogram) ==
    /\ DOMAIN histogram = DOMAIN counter
    /\ \A lv \in DOMAIN counter : histogram[lv].count = counter[lv]

\* C24: a scrape sees none or all of the updates of a matched line: with
\* request_time in the format, the families a scrape returned hold for every
\* label vector a duration histogram with as many samples as the request
\* counter counts, and so do the families whenever the lock is free.
C24_ScrapeSeesWholeLines ==
    /\ (scrape.taken /\ scrape.active)
       => SameCounts(scrape.families[1], scrape.families[2])
    /\ lock = "none" => SameCounts(request_count, request_duration)

\* a scrape came between the two matched lines of one batch: it saw the first
\* line counted and observed, and the worker is now at the second
C24_ScrapeBetweenTwoLines ==
    /\ scrape.taken /\ scrape.active
    /\ DOMAIN scrape.families[1] # {}
    /\ scrape.families[1] = request_count
    /\ hist.batch = <<"Matched", "Matched">>
    /\ pc = "inc" /\ lock = "worker"

-----------------------------------------------------------------------------
(* Further properties of the pipeline builder                              *)

\* the transforms that write a label
LabelWriters == {"User", "Status", "Host", "Regex"}

\* C25: in every pipeline built by new and add_extractor, an extractor whose
\* transform writes a label has a target label index below the number of
\* labels, so no line makes process_line panic.
C25_LabelWritersHaveTarget ==
    /\ \A i \in 1..Len(pin.b.extractors) :
         pin.b.extractors[i].func.kind \in LabelWriters
         => /\ pin.b.extractors[i].label.some
            /\ pin.b.extractors[i].label.idx < Len(pin.b.labels)
    /\ (pout.done /\ pout.op = "process_line") => pout.out.result # "Panic"

\* every label slot is the target of an extractor
EverySlotWritten(b) ==
    \A k \in 1..Len(b.labels) :
      \E i \in 1..Len(b.extractors) :
        b.extractors[i].label.some /\ b.extractors[i].label.idx = k - 1

\* C26: a call to add_extractor that fails because no field has the name
\* leaves the label list, the extractor list and the filter list as they were,
\* so every label slot of the built metrics is written by an extractor.
C26_FailedCallChangesNothing ==
    /\ [][(pin'.calls = pin.calls + 1 /\ pout'.op = "add_extractor" /\ ~pout'.ok)
          => /\ pin'.b.labels = pin.b.labels
             /\ pin'.b.extractors = pin.b.extractors
             /\ pin'.b.filters = pin.b.filters]_vars
    /\ [](EverySlotWritten(pin.b))

-----------------------------------------------------------------------------
(* Carry-over across truncations and rotations                             *)

\* the carry-over buffer is the text of the open file that ends at the offset
CarryOverInFile ==
    /\ offset >= Len(buffer)
    /\ SubSeq(files[file], offset - Len(buffer) + 1, offset) = buffer

\* C27: every line handed to process_line was a contiguous run of the file:
\* a watch session starts with an empty buffer, and whenever a read completes
\* the partial line of the carry-over buffer, that partial line is the text of
\* the file right before the offset the read starts at, so that the two parts
\* of the line lie side by side in the file, also after a truncation or a
\* rotation.
C27_DeliveredLinesContiguous ==
    /\ [][(pc = "activate" /\ pc' = "recv") => buffer' = <<>>]_vars
    /\ [][(pc = "read" /\ pc' = "split" /\ buffer # <<>> /\ next_line(buffer', 0) # -1)
          => CarryOverInFile]_vars

====
